---- MODULE Spec2Model ----
(***************************************************************************)
(* Product identification and contextual retrieval engine.                 *)
(*                                                                         *)
(*   RAGService      chunked vector index: build / persist / load /        *)
(*                   retrieve (app/services/rag_service.py)                *)
(*   MatcherService  weighted fuzzy matcher over the product catalog       *)
(*                   (app/services/matcher_service.py)                     *)
(*                                                                         *)
(* Seven specifications share the module:                                  *)
(*   Spec       the RAG service: one thread that constructs the service    *)
(*              and rebuilds its index, one request thread that calls      *)
(*              retrieve, and the file system they work on;                *)
(*   SpecMatch  the matcher: catalog load, find_matches,                   *)
(*              validate_product_id;                                       *)
(*   SpecChunk  the chunker as a pure function of (words, size, overlap);  *)
(*   SpecBuild  one caller that rebuilds the index and reads its counts;   *)
(*   SpecAnswer startup and the handler of POST /products/{id}/answer;     *)
(*   SpecRebuild  two threads that call build_index on one service;        *)
(*   SpecCombined startup and the handler of POST /recognize-and-answer.   *)
(***************************************************************************)
EXTENDS Integers, Sequences, FiniteSets, TLC

(***************************************************************************)
(* Python values                                                           *)
(***************************************************************************)
\* Values of different kinds are compared (an index with None, a result
\* with a raised exception), so the special values are records too.
None == [py |-> "None"]

\* the marker of a call that ended by raising instead of returning
Raised == [py |-> "raised"]

\* the content of a file that was partly written or damaged
Corrupt == [py |-> "corrupt"]

Min(a, b) == IF a <= b THEN a ELSE b

Max(a, b) == IF a >= b THEN a ELSE b

\* seq[i] for a Python index i (0-based, negative counts from the end);
\* Raised stands for IndexError
PyIndex(seq, i) ==
    IF i >= 0 /\ i < Len(seq) THEN seq[i + 1]
    ELSE IF i < 0 /\ -i <= Len(seq) THEN seq[Len(seq) + i + 1]
    ELSE Raised

(***************************************************************************)
(* Settings (app/config.py)                                                *)
(***************************************************************************)
\* top_k_retrieval, the default of retrieve's top_k
top_k_retrieval == 5

\* top_k_matches, the default of find_matches' top_k
top_k_matches == 3

\* the scoring weights, in tenths
title_weight == 5

model_weight == 3

brand_weight == 2

\* min_confidence as shipped, in thousandths
DefaultMinConfidence == 600

\* chunk_size / chunk_overlap as shipped
DefaultChunkSize == 300

DefaultChunkOverlap == 75

\* windows shorter than this are skipped by the chunker
MinChunkWords == 20

(***************************************************************************)
(* Bounds of the model                                                     *)
(***************************************************************************)
\* the builder thread makes at most this many rebuilds and restarts
MaxOps == 1

\* the request thread makes at most this many retrieve calls
MaxCalls == 1

\* a documents directory holds at most this many files
MaxDocs == 2

\* SpecChunk: documents of 0..MaxWords words, chunk sizes up to MaxChunkSize
MaxWords == 30

MaxChunkSize == 26

(***************************************************************************)
(* State                                                                   *)
(***************************************************************************)
VARIABLES
    \* settings read by the chunker and the matcher
    chunk_size, chunk_overlap, min_confidence,
    \* the documents directory: whether it exists, and its *.txt files in
    \* glob order, each [product_id (the file stem), nwords]
    docsExists, docs,
    \* the two persisted artifacts, index.faiss and chunks.pkl:
    \* None (no file), Corrupt, or the saved value
    diskIndex, diskChunks,
    \* RAGService fields: self.index (None or [vecs: the stored vectors in
    \* id order]), self.chunks
    index, chunks,
    \* builder thread: position, docs still to read, embeddings computed,
    \* number of rebuilds started, (index, chunks) when the build started
    bpc, b_todo, b_emb, b_count, b_old,
    \* request thread: position, arguments, neighbour ids still to walk,
    \* results so far, returned value, number of calls made
    rpc, r_query, r_product_id, r_top_k, r_indices, r_results, ret, r_count,
    \* what the running retrieve saw when it read self.index / self.chunks:
    \* "complete" or "torn", and whether it was uninitialised or empty
    r_seen, r_uninit,
    \* MatcherService: the catalog file, self.catalog, last call and result
    catalogFile, catalog, m_op, m_text, m_top_k, m_ret,
    \* chunker run on its own: document length and result
    c_nwords, c_out,
    \* a caller that rebuilds the index: what it read off the service after
    \* a build, [docs, nchunks, nvecs, b_count], None before
    h_built,
    \* the last request handled (POST /products/{product_id}/answer or
    \* POST /recognize-and-answer): the status of the response, its body, and
    \* the service calls the handler made, in order
    a_status, a_answer, a_calls,
    \* a second thread that calls build_index on the same service: position,
    \* docs still to read, embeddings computed
    b2pc, b2_todo, b2_emb

ragVars == <<docsExists, docs, diskIndex, diskChunks, index, chunks,
             bpc, b_todo, b_emb, b_count, b_old,
             rpc, r_query, r_product_id, r_top_k, r_indices, r_results, ret,
             r_count, r_seen, r_uninit>>

readerVars == <<rpc, r_query, r_product_id, r_top_k, r_indices, r_results,
                ret, r_count, r_seen, r_uninit>>

builderVars == <<diskIndex, diskChunks, index, chunks,
                 bpc, b_todo, b_emb, b_count, b_old>>

matchVars == <<catalogFile, catalog, m_op, m_text, m_top_k, m_ret>>

chunkVars == <<c_nwords, c_out>>

cfgVars == <<chunk_size, chunk_overlap, min_confidence>>

callerVars == <<h_built>>

answerVars == <<a_status, a_answer, a_calls>>

builder2Vars == <<b2pc, b2_todo, b2_emb>>

vars == <<cfgVars, ragVars, matchVars, chunkVars, callerVars, answerVars,
          builder2Vars>>

\* what the steps of the RAG service leave alone
notRag == <<cfgVars, matchVars, chunkVars, callerVars, answerVars,
            builder2Vars>>

(***************************************************************************)
(* Document chunker: RAGService._chunk_document                            *)
(*                                                                         *)
(* A document is its word count; its words are identified by position.    *)
(* A chunk's text ' '.join(words[i:i+size]) is the window it was cut from: *)
(* [doc, first, count].                                                    *)
(***************************************************************************)
\* words[i:i + chunk_size] of a document of n words: the slice is cut at n
SliceLen(n, i, size) == Max(0, Min(i + size, n) - i)

RECURSIVE ChunkFrom(_, _, _, _, _)
\* the loop "for i in range(0, len(words), chunk_size - overlap)" from i on
ChunkFrom(i, n, product_id, size, overlap) ==
    IF i >= n THEN <<>>
    ELSE LET count == SliceLen(n, i, size)
             rest  == ChunkFrom(i + (size - overlap), n, product_id, size, overlap)
         IN  IF count < MinChunkWords
             THEN rest
             ELSE <<[text       |-> [doc |-> product_id, first |-> i, count |-> count],
                     product_id |-> product_id,
                     source     |-> [stem |-> product_id, suffix |-> ".txt"]]>>
                  \o rest

\* the overlap ignored: the windows follow each other without overlap
_chunk_document_no_overlap(n, product_id, size, overlap) ==
    ChunkFrom(0, n, product_id, size, 0)

_chunk_document(n, product_id, size, overlap) ==
    ChunkFrom(0, n, product_id, size, overlap)

(***************************************************************************)
(* Embedding provider and vector index                                     *)
(*                                                                         *)
(* SentenceTransformer.encode is a pure function from text to a vector;   *)
(* the model uses one dimension.  Chunk texts are embedded at multiples    *)
(* of 4, questions at 1 modulo 4, so no two stored vectors are at the      *)
(* same distance from a question.  A faiss.IndexFlatL2 is [vecs], the      *)
(* vectors added, the id of a vector being its position from 0.            *)
(***************************************************************************)
Pids == {"x", "y"}

PidNum(p) == IF p = "x" THEN 0 ELSE 1

\* model.encode of a chunk text
Encode(text) == 4 * (2 * text.first + PidNum(text.doc))

\* model.encode([query]): a question is about a place in some document
EncodeQuery(query) == 4 * (2 * query.first + PidNum(query.doc)) + 1

\* embeddings = model.encode(chunk_texts)
EncodeAll(cs) == [i \in 1..Len(cs) |-> Encode(cs[i].text)]

\* squared Euclidean distance
L2(a, b) == (a - b) * (a - b)

\* the id in S whose vector is nearest to qv
NearestId(vecs, qv, S) ==
    CHOOSE i \in S : \A j \in S :
        \/ L2(vecs[i + 1], qv) < L2(vecs[j + 1], qv)
        \/ L2(vecs[i + 1], qv) = L2(vecs[j + 1], qv) /\ i <= j

RECURSIVE SearchFrom(_, _, _, _)
SearchFrom(vecs, qv, S, k) ==
    IF k <= 0 THEN <<>>
    ELSE IF S = {} THEN <<-1>> \o SearchFrom(vecs, qv, S, k - 1)
    ELSE LET m == NearestId(vecs, qv, S)
         IN  <<m>> \o SearchFrom(vecs, qv, S \ {m}, k - 1)

\* index.search(query_embedding, k)[1][0]: the ids of the k nearest
\* vectors by increasing distance, filled up with -1 when fewer are stored
Search(idx, qv, k) == SearchFrom(idx.vecs, qv, 0..(Len(idx.vecs) - 1), k)

\* index.ntotal
ntotal(idx) == Len(idx.vecs)

(***************************************************************************)
(* RAGService: construction, load, build, save                             *)
(***************************************************************************)
\* RAGService._index_exists
_index_exists == diskIndex # None /\ diskChunks # None

RECURSIVE ChunkAll(_, _, _)
\* the chunks of the documents ds, in order (the loop of build_index)
ChunkAll(ds, size, overlap) ==
    IF ds = <<>> THEN <<>>
    ELSE _chunk_document(Head(ds).nwords, Head(ds).product_id, size, overlap)
         \o ChunkAll(Tail(ds), size, overlap)

\* (index, chunks) after a complete build_index that started with index idx
BuildFinal(idx) ==
    LET cs == ChunkAll(docs, chunk_size, chunk_overlap)
    IN  IF ~docsExists \/ cs = <<>>
        THEN [index |-> idx, chunks |-> <<>>]
        ELSE [index |-> [vecs |-> EncodeAll(cs)], chunks |-> cs]

\* retrieve's product_id when there is none: "" stands for None and for the
\* empty string, which retrieve treats alike ("if product_id")
NoProduct == ""

\* a build_index called on the published service is running
Rebuilding == bpc \notin {"new", "idle"} /\ b_old # None

\* the service is published to the request handlers once __init__ returned
Constructed == bpc = "idle" \/ Rebuilding

\* build_index, lines 51-56: empty self.chunks, look for the directory
BuildBegin ==
    /\ chunks' = <<>>
    /\ IF docsExists
       THEN bpc' = "build_docs" /\ b_todo' = docs
       ELSE bpc' = "idle" /\ b_todo' = <<>>

\* RAGService.__init__ with _load_index: both artifacts are read when both
\* exist; a failed read leaves what was loaded before it and starts a build
Construct ==
    /\ bpc = "new"
    /\ b_old' = None
    /\ b_emb' = <<>>
    /\ IF _index_exists /\ diskIndex # Corrupt /\ diskChunks # Corrupt
       THEN /\ index' = diskIndex
            /\ chunks' = diskChunks.pickled
            /\ bpc' = "idle"
            /\ b_todo' = <<>>
       ELSE /\ index' = IF _index_exists /\ diskIndex # Corrupt
                        THEN diskIndex ELSE None
            /\ BuildBegin
    /\ UNCHANGED <<docsExists, docs, diskIndex, diskChunks, b_count>>
    /\ UNCHANGED <<readerVars, notRag>>

\* a later call of build_index on the constructed service
BuildIndex ==
    /\ bpc = "idle"
    /\ b_count < MaxOps
    /\ b_count' = b_count + 1
    /\ b_old' = IF docsExists THEN [index |-> index, chunks |-> chunks] ELSE None
    /\ b_emb' = <<>>
    /\ BuildBegin
    /\ UNCHANGED <<docsExists, docs, diskIndex, diskChunks, index>>
    /\ UNCHANGED <<readerVars, notRag>>

\* build_index, lines 58-67: one document read, chunked, appended
BuildDoc ==
    /\ bpc = "build_docs"
    /\ b_todo # <<>>
    /\ chunks' = chunks \o _chunk_document(Head(b_todo).nwords,
                              Head(b_todo).product_id, chunk_size, chunk_overlap)
    /\ b_todo' = Tail(b_todo)
    /\ UNCHANGED <<docsExists, docs, diskIndex, diskChunks, index,
                   bpc, b_emb, b_count, b_old>>
    /\ UNCHANGED <<readerVars, notRag>>

\* build_index, lines 71-78: return if there are no chunks, else embed them
BuildEmbed ==
    /\ bpc = "build_docs"
    /\ b_todo = <<>>
    /\ IF chunks = <<>>
       THEN bpc' = "idle" /\ b_emb' = <<>> /\ b_old' = None
       ELSE bpc' = "build_index" /\ b_emb' = EncodeAll(chunks) /\ b_old' = b_old
    /\ UNCHANGED <<docsExists, docs, diskIndex, diskChunks, index, chunks,
                   b_todo, b_count>>
    /\ UNCHANGED <<readerVars, notRag>>

\* build_index, line 82: self.index = faiss.IndexFlatL2(dimension)
BuildNewIndex ==
    /\ bpc = "build_index"
    /\ index' = [vecs |-> <<>>]
    /\ bpc' = "build_add"
    /\ UNCHANGED <<docsExists, docs, diskIndex, diskChunks, chunks,
                   b_todo, b_emb, b_count, b_old>>
    /\ UNCHANGED <<readerVars, notRag>>

\* build_index, line 83: self.index.add(embeddings)
BuildAdd ==
    /\ bpc = "build_add"
    /\ index' = [vecs |-> index.vecs \o b_emb]
    /\ b_emb' = <<>>
    /\ bpc' = "save_index"
    /\ UNCHANGED <<docsExists, docs, diskIndex, diskChunks, chunks,
                   b_todo, b_count, b_old>>
    /\ UNCHANGED <<readerVars, notRag>>

\* _save_index, lines 125-130: index.faiss is written; on an exception the
\* file is as it was or partly written, and _save_index logs and returns
SaveIndexFile ==
    /\ bpc = "save_index"
    /\ \/ diskIndex' = index /\ bpc' = "save_chunks"
       \/ diskIndex' \in {diskIndex, Corrupt} /\ bpc' = "idle"
    /\ b_old' = IF bpc' = "idle" THEN None ELSE b_old
    /\ UNCHANGED <<docsExists, docs, diskChunks, index, chunks,
                   b_todo, b_emb, b_count>>
    /\ UNCHANGED <<readerVars, notRag>>

\* _save_index, lines 132-133: chunks.pkl is written, or the write fails
\* (before the file is opened, or after it was truncated)
SaveChunksFile ==
    /\ bpc = "save_chunks"
    /\ diskChunks' \in {[pickled |-> chunks], diskChunks, Corrupt}
    /\ bpc' = "idle"
    /\ b_old' = None
    /\ UNCHANGED <<docsExists, docs, diskIndex, index, chunks,
                   b_todo, b_emb, b_count>>
    /\ UNCHANGED <<readerVars, notRag>>

\* the process ends and a new one starts: memory is lost, the files stay,
\* and nothing of the last request is left
Restart ==
    /\ bpc = "idle"
    /\ rpc \in {"idle", "done"}
    /\ b_count < MaxOps
    /\ b_count' = b_count + 1
    /\ bpc' = "new"
    /\ index' = None
    /\ chunks' = <<>>
    /\ b_old' = None
    /\ rpc' = "idle"
    /\ r_query' = None /\ r_product_id' = NoProduct /\ r_top_k' = 0
    /\ ret' = None /\ r_seen' = "complete" /\ r_uninit' = FALSE
    /\ UNCHANGED <<docsExists, docs, diskIndex, diskChunks, b_todo, b_emb,
                   r_indices, r_results, r_count>>
    /\ UNCHANGED notRag

(***************************************************************************)
(* RAGService.retrieve, one step per read of self.index / self.chunks      *)
(***************************************************************************)
\* the questions asked: about the start of document x, the end of y
Queries == {[doc |-> "x", first |-> 0], [doc |-> "y", first |-> 1000]}

\* product_id arguments
ProductArgs == {NoProduct, "x"}

\* explicit top_k arguments (the routers pass 3)
TopKs == {1, 3}

\* whether the pair (self.index, self.chunks) read now is neither the pair
\* the running build started from nor the pair it will end with
Torn ==
    IF Rebuilding
    THEN [index |-> index, chunks |-> chunks]
             \notin {b_old, BuildFinal(b_old.index)}
    ELSE FALSE

Seen == IF Torn THEN "torn" ELSE r_seen

\* line 182
SearchK(product_id, top_k) ==
    IF product_id # NoProduct THEN top_k * 5 ELSE top_k

\* the filter left out
FilteredOut_off(product_id, chunk) == FALSE

\* line 192: the chunk is skipped
FilteredOut(product_id, chunk) ==
    product_id # NoProduct /\ chunk.product_id # product_id

\* the exception passed on to the caller
RetrieveExcept_reraise == Raised

\* lines 203-205: what retrieve returns when its try block raised
RetrieveExcept == [value |-> <<>>]

\* lines 169-174: the default top_k and the guard.  r_query is the local
\* of the running call, None once the call has returned.
RetrieveCall(query, product_id, top_k) ==
    /\ rpc \in {"idle", "done"}
    /\ Constructed
    /\ r_count < MaxCalls
    /\ r_count' = r_count + 1
    /\ r_query' = IF index = None \/ chunks = <<>> THEN None ELSE query
    /\ r_product_id' = product_id
    /\ r_top_k' = top_k
    /\ r_indices' = <<>>
    /\ r_results' = <<>>
    /\ r_uninit' = (index = None \/ chunks = <<>>)
    /\ r_seen' = IF Torn THEN "torn" ELSE "complete"
    /\ IF index = None \/ chunks = <<>>
       THEN rpc' = "done" /\ ret' = [value |-> <<>>]
       ELSE rpc' = "search" /\ ret' = None
    /\ UNCHANGED <<builderVars, docsExists, docs, notRag>>

\* lines 178-183: embed the question and search the index
RetrieveSearch ==
    /\ rpc = "search"
    /\ r_indices' = Search(index, EncodeQuery(r_query),
                           SearchK(r_product_id, r_top_k))
    /\ r_seen' = Seen
    /\ rpc' = "walk"
    /\ UNCHANGED <<r_query, r_product_id, r_top_k, r_results, ret, r_count,
                   r_uninit>>
    /\ UNCHANGED <<builderVars, docsExists, docs, notRag>>

\* lines 187-201: one iteration of the loop over the ids, and the return
\* when the loop ends or breaks
RetrieveWalk ==
    /\ rpc = "walk"
    /\ LET idx     == Head(r_indices)
           inRange == idx < Len(chunks)
           chunk   == PyIndex(chunks, idx)
           taken   == inRange /\ chunk # Raised
                      /\ ~FilteredOut(r_product_id, chunk)
           results == IF taken THEN Append(r_results, chunk) ELSE r_results
           stop    == \/ Tail(r_indices) = <<>>
                      \/ taken /\ Len(results) >= r_top_k
       IN  IF inRange /\ chunk = Raised
           THEN /\ ret' = RetrieveExcept
                /\ rpc' = "done"
                /\ r_indices' = <<>>
                /\ r_results' = <<>>
           ELSE IF stop
           THEN /\ ret' = [value |-> results]
                /\ rpc' = "done"
                /\ r_indices' = <<>>
                /\ r_results' = <<>>
           ELSE /\ ret' = ret
                /\ rpc' = "walk"
                /\ r_indices' = Tail(r_indices)
                /\ r_results' = results
    /\ r_seen' = Seen
    /\ r_query' = IF rpc' = "done" THEN None ELSE r_query
    /\ UNCHANGED <<r_product_id, r_top_k, r_count, r_uninit>>
    /\ UNCHANGED <<builderVars, docsExists, docs, notRag>>

\* a call of retrieve: with an explicit top_k, or with the default of line
\* 170 (top_k = top_k or settings.top_k_retrieval) and no product_id
Retrieve ==
    \E query \in Queries :
        \/ \E product_id \in ProductArgs, top_k \in TopKs :
              RetrieveCall(query, product_id, top_k)
        \/ RetrieveCall(query, NoProduct, top_k_retrieval)

(***************************************************************************)
(* The documents directory                                                 *)
(***************************************************************************)
\* word counts of the documents: too short for a chunk, and one chunk
DocWords == {10, 25}

\* a file <product_id>.txt is added to the directory
AddDoc(product_id, nwords) ==
    /\ bpc \in {"new", "idle"}
    /\ docsExists
    /\ Len(docs) < MaxDocs
    /\ \A i \in 1..Len(docs) : docs[i].product_id # product_id
    /\ docs' = Append(docs, [product_id |-> product_id, nwords |-> nwords])
    /\ UNCHANGED docsExists
    /\ UNCHANGED <<builderVars, readerVars, notRag>>

\* the directory is removed
RemoveDocsDir ==
    /\ bpc \in {"new", "idle"}
    /\ docsExists
    /\ docsExists' = FALSE
    /\ docs' = <<>>
    /\ UNCHANGED <<builderVars, readerVars, notRag>>

\* the directories a service may start with
DocDirs ==
    {<<>>}
    \cup {<<[product_id |-> p, nwords |-> n]>> : p \in Pids, n \in DocWords}
    \cup {<<[product_id |-> p, nwords |-> n], [product_id |-> q, nwords |-> m]>> :
            p \in Pids, q \in Pids, n \in DocWords, m \in DocWords}

(***************************************************************************)
(* Specification of the RAG service                                        *)
(***************************************************************************)
MatchIdle ==
    /\ catalogFile = None
    /\ catalog = None
    /\ m_op = "none"
    /\ m_text = <<>>
    /\ m_top_k = 0
    /\ m_ret = None

ChunkIdle ==
    /\ c_nwords = 0
    /\ c_out = None

CallerIdle == h_built = None

Builder2Idle ==
    /\ b2pc = "idle"
    /\ b2_todo = <<>>
    /\ b2_emb = <<>>

AnswerIdle ==
    /\ a_status = 0
    /\ a_answer = None
    /\ a_calls = <<>>

Init ==
    /\ chunk_size = DefaultChunkSize
    /\ chunk_overlap = DefaultChunkOverlap
    /\ min_confidence = DefaultMinConfidence
    /\ docsExists \in BOOLEAN
    /\ docs \in {d \in DocDirs :
                   /\ Len(d) <= MaxDocs
                   /\ (~docsExists => d = <<>>)
                   /\ \A i, j \in 1..Len(d) :
                        i # j => d[i].product_id # d[j].product_id}
    /\ diskIndex = None
    /\ diskChunks = None
    /\ index = None
    /\ chunks = <<>>
    /\ bpc = "new"
    /\ b_todo = <<>>
    /\ b_emb = <<>>
    /\ b_count = 0
    /\ b_old = None
    /\ rpc = "idle"
    /\ r_query = None
    /\ r_product_id = NoProduct
    /\ r_top_k = 0
    /\ r_indices = <<>>
    /\ r_results = <<>>
    /\ ret = None
    /\ r_count = 0
    /\ r_seen = "complete"
    /\ r_uninit = FALSE
    /\ MatchIdle
    /\ ChunkIdle
    /\ CallerIdle
    /\ AnswerIdle
    /\ Builder2Idle

Next ==
    \/ Construct
    \/ BuildIndex
    \/ BuildDoc
    \/ BuildEmbed
    \/ BuildNewIndex
    \/ BuildAdd
    \/ SaveIndexFile
    \/ SaveChunksFile
    \/ Restart
    \/ Retrieve
    \/ RetrieveSearch
    \/ RetrieveWalk
    \/ \E p \in Pids, n \in DocWords : AddDoc(p, n)
    \/ RemoveDocsDir

Spec == Init /\ [][Next]_vars

(***************************************************************************)
(* Strings                                                                 *)
(*                                                                         *)
(* A string is the sequence of its characters.  Characters are ordered by  *)
(* code point, as Python orders them: space, '-', digits, upper, lower.    *)
(***************************************************************************)
CodePoints ==
    <<" ", "-", "0", "1", "2", "3", "4", "5", "6", "7", "8", "9",
      "A", "B", "C", "D", "E", "F", "G", "H", "I", "J", "K", "L", "M",
      "N", "O", "P", "Q", "R", "S", "T", "U", "V", "W", "X", "Y", "Z",
      "a", "b", "c", "d", "e", "f", "g", "h", "i", "j", "k", "l", "m",
      "n", "o", "p", "q", "r", "s", "t", "u", "v", "w", "x", "y", "z">>

Ord(c) == CHOOSE i \in 1..Len(CodePoints) : CodePoints[i] = c

\* the upper-case letters are CodePoints[13..38], the lower-case ones follow
LowerChar(c) == IF Ord(c) >= 13 /\ Ord(c) <= 38 THEN CodePoints[Ord(c) + 26] ELSE c

\* str.lower
StrLower(str) == [i \in 1..Len(str) |-> LowerChar(str[i])]

RECURSIVE LStrip(_)
LStrip(str) ==
    IF str # <<>> /\ Head(str) = " " THEN LStrip(Tail(str)) ELSE str

RECURSIVE RStrip(_)
RStrip(str) ==
    IF str # <<>> /\ str[Len(str)] = " "
    THEN RStrip(SubSeq(str, 1, Len(str) - 1))
    ELSE str

\* str.strip
StrStrip(str) == RStrip(LStrip(str))

RECURSIVE SplitFrom(_, _)
\* the tokens of str after the token cur that is being read
SplitFrom(str, cur) ==
    IF str = <<>> THEN (IF cur = <<>> THEN {} ELSE {cur})
    ELSE IF Head(str) = " "
         THEN (IF cur = <<>> THEN {} ELSE {cur}) \cup SplitFrom(Tail(str), <<>>)
         ELSE SplitFrom(Tail(str), Append(cur, Head(str)))

\* set(str.split()): the set of the whitespace-separated tokens
TokenSet(str) == SplitFrom(str, <<>>)

RECURSIVE StrLess(_, _)
\* a < b for strings
StrLess(a, b) ==
    IF b = <<>> THEN FALSE
    ELSE IF a = <<>> THEN TRUE
    ELSE IF Head(a) = Head(b) THEN StrLess(Tail(a), Tail(b))
    ELSE Ord(Head(a)) < Ord(Head(b))

RECURSIVE SortedJoin(_)
\* " ".join(sorted(tokens))
SortedJoin(tokens) ==
    IF tokens = {} THEN <<>>
    ELSE LET least == CHOOSE t \in tokens : \A u \in tokens \ {t} : StrLess(t, u)
             rest  == tokens \ {least}
         IN  IF rest = {} THEN least ELSE least \o <<" ">> \o SortedJoin(rest)

(***************************************************************************)
(* rapidfuzz.fuzz.token_set_ratio, as a fraction <<num, den>> of 1         *)
(* (the code divides the percentage by 100.0)                              *)
(***************************************************************************)
\* the next row of the longest-common-subsequence table.  row[j + 1] is
\* the length for the characters of a read so far and b[1..j]; with one more
\* character c of a, c is left out or matched with the last c in b[1..j].
LcsRow(row, c, b) ==
    [j1 \in 1..(Len(b) + 1) |->
        LET at == {k \in 1..(j1 - 1) : b[k] = c}
        IN  IF at = {} THEN row[j1]
            ELSE LET last == CHOOSE k \in at : \A m \in at : m <= k
                 IN  Max(row[j1], row[last] + 1)] \o <<>>

RECURSIVE LcsRows(_, _, _)
LcsRows(a, b, row) ==
    IF a = <<>> THEN row
    ELSE LcsRows(Tail(a), b, LcsRow(row, Head(a), b))

\* length of the longest common subsequence of a and b
Lcs(a, b) == LcsRows(a, b, [j \in 1..(Len(b) + 1) |-> 0])[Len(b) + 1]

\* Indel.distance: insertions and deletions that turn a into b
IndelDistance(a, b) == Len(a) + Len(b) - 2 * Lcs(a, b)

\* _norm_distance: 100 - 100 * dist / lensum, as a fraction of 1
NormDistance(dist, lensum) ==
    IF lensum = 0 THEN <<1, 1>> ELSE <<lensum - dist, lensum>>

FracLess(f, g) == f[1] * g[2] < g[1] * f[2]

FracMax(f, g) == IF FracLess(f, g) THEN g ELSE f

\* the ratio once the token sets are joined: sect_len is the length of the
\* joined common tokens, ab_joined and ba_joined the joined differences
TokenSetRatioJoined(sect_len, ab_joined, ba_joined) ==
    LET ab_len    == Len(ab_joined)
        ba_len    == Len(ba_joined)
        sep       == IF sect_len # 0 THEN 1 ELSE 0
        sect_ab_len == sect_len + sep + ab_len
        sect_ba_len == sect_len + sep + ba_len
        result    == NormDistance(IndelDistance(ab_joined, ba_joined),
                                  sect_ab_len + sect_ba_len)
        sect_ab_ratio == NormDistance(sep + ab_len, sect_len + sect_ab_len)
        sect_ba_ratio == NormDistance(sep + ba_len, sect_len + sect_ba_len)
    IN  IF sect_len = 0 THEN result
        ELSE FracMax(result, FracMax(sect_ab_ratio, sect_ba_ratio))

\* the ratio of two token sets: 0 when one is empty, 1 when one contains
\* the other
TokenSetRatioOf(tokens_a, tokens_b) ==
    IF tokens_a = {} \/ tokens_b = {} THEN <<0, 1>>
    ELSE IF /\ tokens_a \cap tokens_b # {}
            /\ (tokens_a \ tokens_b = {} \/ tokens_b \ tokens_a = {})
         THEN <<1, 1>>
    ELSE TokenSetRatioJoined(Len(SortedJoin(tokens_a \cap tokens_b)),
                             SortedJoin(tokens_a \ tokens_b),
                             SortedJoin(tokens_b \ tokens_a))

token_set_ratio(s1, s2) == TokenSetRatioOf(TokenSet(s1), TokenSet(s2))

(***************************************************************************)
(* MatcherService                                                          *)
(*                                                                         *)
(* A DataFrame is [columns, rows].  Scores are exact fractions here; the   *)
(* code computes them in floating point.                                   *)
(***************************************************************************)
CatalogColumns == {"product_id", "title", "model", "brand"}

\* pd.DataFrame()
EmptyDataFrame == [columns |-> {}, rows |-> <<>>]

\* DataFrame.empty
DataFrameEmpty(df) == df.columns = {} \/ df.rows = <<>>

\* MatcherService._load_catalog: read_csv raises for a file that is missing
\* or unreadable, and the catalog is then an empty DataFrame
_load_catalog(file) ==
    IF file = None \/ file = Corrupt THEN EmptyDataFrame ELSE file

\* lines 67-71 as a fraction: the weights are tenths
combined_score(title_score, model_score, brand_score) ==
    << title_weight * title_score[1] * model_score[2] * brand_score[2]
       + model_weight * model_score[1] * title_score[2] * brand_score[2]
       + brand_weight * brand_score[1] * title_score[2] * model_score[2],
       10 * title_score[2] * model_score[2] * brand_score[2] >>

\* line 83: combined_score >= settings.min_confidence (thousandths)
AboveFloor(score, floor) == score[1] * 1000 >= floor * score[2]

\* round(x, ndigits) in units of 10^-ndigits: to nearest, halves to even
PyRound(f, scale) ==
    LET q == (f[1] * scale) \div f[2]
        r == (f[1] * scale) % f[2]
    IN  IF 2 * r > f[2] THEN q + 1
        ELSE IF 2 * r = f[2] THEN q + (q % 2)
        ELSE q

\* lines 74-80 and 88: the fields whose score is above 0.6, else the text
Evidence(title_score, model_score, brand_score) ==
    LET above(f) == f[1] * 10 > 6 * f[2]
        lines == (IF above(title_score) THEN <<"Title match">> ELSE <<>>)
                 \o (IF above(model_score) THEN <<"Model match">> ELSE <<>>)
                 \o (IF above(brand_score) THEN <<"Brand match">> ELSE <<>>)
    IN  IF lines = <<>> THEN <<"OCR">> ELSE lines

\* a catalog row that is not a candidate
Below == [py |-> "below"]

\* lines 66-90 for one catalog row with its three scores: the candidate,
\* Below when it is below the floor, Raised when ProductCandidate rejects a
\* score above 1
CandidateOf(product, title_score, model_score, brand_score, floor) ==
    LET combined == combined_score(title_score, model_score, brand_score)
        score    == PyRound(combined, 1000)
    IN  IF ~AboveFloor(combined, floor) THEN Below
        ELSE IF score > 1000 THEN Raised
        ELSE [product_id |-> product.product_id,
              title      |-> product.title,
              score      |-> score,
              evidence   |-> Evidence(title_score, model_score, brand_score)]

\* lines 60-90 for one catalog row
Candidate(text_normalized, product, floor) ==
    CandidateOf(product,
                token_set_ratio(text_normalized, StrLower(product.title)),
                token_set_ratio(text_normalized, StrLower(product.model)),
                token_set_ratio(text_normalized, StrLower(product.brand)),
                floor)

RECURSIVE Candidates(_, _, _)
\* the loop over catalog.iterrows(): [value |-> candidates], or Raised
Candidates(text_normalized, rows, floor) ==
    IF rows = <<>> THEN [value |-> <<>>]
    ELSE LET c    == Candidate(text_normalized, Head(rows), floor)
             rest == Candidates(text_normalized, Tail(rows), floor)
         IN  IF c = Raised \/ rest = Raised THEN Raised
             ELSE IF c = Below THEN rest
             ELSE [value |-> <<c>> \o rest.value]

\* the sort without reverse=True
InsertDescending_ascending(sorted, x) ==
    LET n == Cardinality({i \in 1..Len(sorted) : sorted[i].score <= x.score})
    IN  SubSeq(sorted, 1, n) \o <<x>> \o SubSeq(sorted, n + 1, Len(sorted))

\* list.sort(key, reverse=True) places x: after the elements whose key is
\* at least its own, the sort being stable
InsertDescending(sorted, x) ==
    LET n == Cardinality({i \in 1..Len(sorted) : sorted[i].score >= x.score})
    IN  SubSeq(sorted, 1, n) \o <<x>> \o SubSeq(sorted, n + 1, Len(sorted))

RECURSIVE SortDescending(_)
\* candidates.sort(key=lambda x: x.score, reverse=True)
SortDescending(cs) ==
    IF cs = <<>> THEN <<>>
    ELSE InsertDescending(SortDescending(SubSeq(cs, 1, Len(cs) - 1)), cs[Len(cs)])

\* the early return without the test of the text
FindMatchesGuard_catalog_only(ocr_text, df) == DataFrameEmpty(df)

\* lines 51-53: the early return
FindMatchesGuard(ocr_text, df) == ocr_text = <<>> \/ DataFrameEmpty(df)

\* MatcherService.find_matches: [value |-> candidates], or Raised
find_matches(df, ocr_text, top_k, floor) ==
    IF FindMatchesGuard(ocr_text, df) THEN [value |-> <<>>]
    ELSE IF ~(CatalogColumns \subseteq df.columns) THEN Raised
    ELSE LET found == Candidates(StrStrip(StrLower(ocr_text)), df.rows, floor)
         IN  IF found = Raised THEN Raised
             ELSE LET ranked == SortDescending(found.value)
                  IN  [value |-> SubSeq(ranked, 1, Min(top_k, Len(ranked)))]

\* MatcherService.validate_product_id: catalog['product_id'] raises KeyError
\* when the DataFrame has no such column
validate_product_id(df, product_id) ==
    IF "product_id" \notin df.columns THEN Raised
    ELSE [value |-> \E i \in 1..Len(df.rows) : df.rows[i].product_id = product_id]

(***************************************************************************)
(* Specification of the matcher                                            *)
(***************************************************************************)
T_iphone_15_pro_max == <<"i", "P", "h", "o", "n", "e", " ", "1", "5", " ", "P", "r", "o", " ", "M", "a", "x">>

T_iphone_15_pro == <<"i", "P", "h", "o", "n", "e", " ", "1", "5", " ", "P", "r", "o">>

T_macbook_pro == <<"M", "a", "c", "B", "o", "o", "k", " ", "P", "r", "o">>

M_a3105 == <<"A", "3", "1", "0", "5">>

M_a3102 == <<"A", "3", "1", "0", "2">>

M_m3 == <<"M", "3">>

B_apple == <<"A", "p", "p", "l", "e">>

Q_iphone_15_pro_max == <<"i", "p", "h", "o", "n", "e", " ", "1", "5", " ", "p", "r", "o", " ", "m", "a", "x">>

\* a label as OCR reads it: brand, title and model, with spaces around
Q_label == <<" ", "A", "p", "p", "l", "e", " ", "i", "P", "h", "o", "n", "e", " ", "1", "5", " ", "P", "r", "o", " ", "M", "a", "x", " ", "A", "3", "1", "0", "5", " ">>

Q_blank == <<" ">>

\* a label read in part: the combined scores of the iPhone 15 Pro Max row
\* (0.60321) and of the iPhone 15 Pro row (0.60303) are within a thousandth
Q_partial == <<"a", "p", "p", "l", "e", " ", "p", "r", "o", " ", "a", "3", "1", "0", " ", "m", "2">>

E_iphone_15_pro_max ==
    [product_id |-> "iphone-15-pro-max", title |-> T_iphone_15_pro_max,
     model |-> M_a3105, brand |-> B_apple]

E_iphone_15_pro ==
    [product_id |-> "iphone-15-pro", title |-> T_iphone_15_pro,
     model |-> M_a3102, brand |-> B_apple]

E_macbook_pro ==
    [product_id |-> "macbook-pro", title |-> T_macbook_pro,
     model |-> M_m3, brand |-> B_apple]

Entries == {E_iphone_15_pro_max, E_iphone_15_pro, E_macbook_pro}

\* a catalog has at most this many rows
MaxRows == 2

\* the row sequences of at most MaxRows distinct entries
RECURSIVE RowSeqs(_)
RowSeqs(n) ==
    IF n = 0 THEN {<<>>}
    ELSE RowSeqs(n - 1)
         \cup {Append(rs, e) : rs \in {r \in RowSeqs(n - 1) : Len(r) = n - 1},
                               e \in Entries}

\* catalog.csv: missing, unreadable, or a table (possibly with no rows)
CatalogFiles ==
    {None, Corrupt}
    \cup {[columns |-> CatalogColumns, rows |-> rs] :
            rs \in {r \in RowSeqs(MaxRows) :
                      \A i, j \in 1..Len(r) : i # j => r[i] # r[j]}}

OcrTexts == {<<>>, Q_blank, Q_iphone_15_pro_max, Q_label, Q_partial,
             T_iphone_15_pro_max, T_iphone_15_pro, T_macbook_pro}

ProductIds == {"iphone-15-pro-max", "macbook-pro", "unknown"}

\* values of settings.min_confidence, in thousandths
MinConfidences == {DefaultMinConfidence, 0}

RagIdle ==
    /\ docsExists = FALSE
    /\ docs = <<>>
    /\ diskIndex = None
    /\ diskChunks = None
    /\ index = None
    /\ chunks = <<>>
    /\ bpc = "new"
    /\ b_todo = <<>>
    /\ b_emb = <<>>
    /\ b_count = 0
    /\ b_old = None
    /\ rpc = "idle"
    /\ r_query = None
    /\ r_product_id = NoProduct
    /\ r_top_k = 0
    /\ r_indices = <<>>
    /\ r_results = <<>>
    /\ ret = None
    /\ r_count = 0
    /\ r_seen = "complete"
    /\ r_uninit = FALSE

InitMatch ==
    /\ chunk_size = DefaultChunkSize
    /\ chunk_overlap = DefaultChunkOverlap
    /\ min_confidence \in MinConfidences
    /\ catalogFile \in CatalogFiles
    /\ catalog = None
    /\ m_op = "none"
    /\ m_text = <<>>
    /\ m_top_k = 0
    /\ m_ret = None
    /\ RagIdle
    /\ ChunkIdle
    /\ CallerIdle
    /\ AnswerIdle
    /\ Builder2Idle

\* MatcherService.__init__
MatcherInit ==
    /\ m_op = "none"
    /\ catalog' = _load_catalog(catalogFile)
    /\ m_op' = "__init__"
    /\ UNCHANGED <<catalogFile, m_text, m_top_k, m_ret>>
    /\ UNCHANGED <<cfgVars, ragVars, chunkVars, callerVars, answerVars,
                   builder2Vars>>

\* a call find_matches(ocr_text, top_k)
FindMatches(ocr_text, top_k) ==
    /\ m_op # "none"
    /\ m_op' = "find_matches"
    /\ m_text' = ocr_text
    /\ m_top_k' = top_k
    /\ m_ret' = find_matches(catalog, ocr_text, top_k, min_confidence)
    /\ UNCHANGED <<catalogFile, catalog, cfgVars, ragVars, chunkVars,
                   callerVars, answerVars, builder2Vars>>

\* a call validate_product_id(product_id); m_text holds the argument
ValidateProductId(product_id) ==
    /\ m_op # "none"
    /\ m_op' = "validate_product_id"
    /\ m_text' = <<product_id>>
    /\ m_top_k' = 0
    /\ m_ret' = validate_product_id(catalog, product_id)
    /\ UNCHANGED <<catalogFile, catalog, cfgVars, ragVars, chunkVars,
                   callerVars, answerVars, builder2Vars>>

NextMatch ==
    \/ MatcherInit
    \/ \E t \in OcrTexts : FindMatches(t, 1)
    \/ \E t \in OcrTexts : FindMatches(t, top_k_matches)
    \/ \E p \in ProductIds : ValidateProductId(p)

SpecMatch == InitMatch /\ [][NextMatch]_vars

(***************************************************************************)
(* Specification of the chunker on its own                                 *)
(***************************************************************************)
\* chunk_size > chunk_overlap >= 0: every size up to MaxChunkSize with every
\* overlap below it, and the shipped 300/75
ChunkConfigs ==
    {c \in (1..MaxChunkSize) \X (0..(MaxChunkSize - 1)) : c[1] > c[2]}
    \cup {<<DefaultChunkSize, DefaultChunkOverlap>>}

\* document lengths in words: every short one, and the 400 of the scenario
DocLengths == 0..MaxWords \cup {400}

InitChunk ==
    /\ \E c \in ChunkConfigs : chunk_size = c[1] /\ chunk_overlap = c[2]
    /\ min_confidence = DefaultMinConfidence
    /\ c_nwords \in DocLengths
    \* the long document is chunked with the shipped configuration only
    /\ c_nwords > MaxWords => chunk_size = DefaultChunkSize
    /\ c_out = None
    /\ RagIdle
    /\ MatchIdle
    /\ CallerIdle
    /\ AnswerIdle
    /\ Builder2Idle

\* _chunk_document(content, product_id, source) on a document of c_nwords
ChunkDocument ==
    /\ c_out = None
    /\ c_out' = [value |-> _chunk_document(c_nwords, "x", chunk_size, chunk_overlap)]
    /\ UNCHANGED <<c_nwords, cfgVars, ragVars, matchVars, callerVars, answerVars,
                   builder2Vars>>

NextChunk == ChunkDocument

SpecChunk == InitChunk /\ [][NextChunk]_vars

(***************************************************************************)
(* Specification of rebuilds by one caller                                 *)
(*                                                                         *)
(* A caller builds the index, reads the counts off the service, adds       *)
(* documents and builds again; no request runs meanwhile.                  *)
(***************************************************************************)
\* the caller has read the counts since the last build returned
Observed == h_built # None /\ h_built.b_count = b_count

\* len(service.chunks) and service.index.ntotal, read after a build
Observe ==
    /\ bpc = "idle"
    /\ ~Observed
    /\ h_built' = [docs    |-> docs,
                   nchunks |-> Len(chunks),
                   nvecs   |-> IF index = None THEN 0 ELSE ntotal(index),
                   b_count |-> b_count]
    /\ UNCHANGED <<cfgVars, ragVars, matchVars, chunkVars, answerVars,
                   builder2Vars>>

\* a document is added before the first build or after the counts were read
AddDocBetween(product_id, nwords) ==
    /\ bpc = "new" \/ Observed
    /\ AddDoc(product_id, nwords)

NextBuild ==
    \/ Construct
    \/ BuildIndex
    \/ BuildDoc
    \/ BuildEmbed
    \/ BuildNewIndex
    \/ BuildAdd
    \/ SaveIndexFile
    \/ SaveChunksFile
    \/ Observe
    \/ \E p \in Pids, n \in DocWords : AddDocBetween(p, n)

SpecBuild == Init /\ [][NextBuild]_vars

(***************************************************************************)
(* POST /products/{product_id}/answer (app/routers/products.py)            *)
(*                                                                         *)
(* The application constructs one MatcherService and one RAGService at     *)
(* startup; the handler runs to its end on the event loop, so a request    *)
(* is one step.                                                            *)
(***************************************************************************)
RECURSIVE RetrieveLoop(_, _, _, _, _)
\* retrieve, lines 187-201: the loop over the ids from ids on, with the
\* results collected so far; an exception ends in the handler of line 203
RetrieveLoop(ids, cs, product_id, top_k, results) ==
    IF ids = <<>> THEN [value |-> results]
    ELSE LET idx     == Head(ids)
             inRange == idx < Len(cs)
             chunk   == PyIndex(cs, idx)
             taken   == inRange /\ chunk # Raised
                        /\ ~FilteredOut(product_id, chunk)
             found   == IF taken THEN Append(results, chunk) ELSE results
         IN  IF inRange /\ chunk = Raised THEN RetrieveExcept
             ELSE IF taken /\ Len(found) >= top_k THEN [value |-> found]
             ELSE RetrieveLoop(Tail(ids), cs, product_id, top_k, found)

\* RAGService.retrieve as one call on a service nobody else is changing
retrieve(idx, cs, query, product_id, top_k) ==
    IF idx = None \/ cs = <<>> THEN [value |-> <<>>]
    ELSE RetrieveLoop(Search(idx, EncodeQuery(query), SearchK(product_id, top_k)),
                      cs, product_id, top_k, <<>>)

\* what llm_service.generate_answer does: it returns a text, or raises (no
\* client configured, or the API call failed)
LlmOutcomes == {"text", "raise"}

\* line 61
NoInformation == "No relevant information found in the product documentation."

\* lines 66-88: the response once retrieve returned the chunks found
AnswerFrom(found, use_external_llm, llm) ==
    LET context_texts   == [i \in 1..Len(found) |-> found[i].text]
        context_sources == {found[i].source : i \in 1..Len(found)}
    IN  IF use_external_llm /\ llm = "raise"
        THEN [status |-> 500, answer |-> None]
        ELSE [status |-> 200,
              answer |-> [answer |-> IF use_external_llm
                                     THEN [llm |-> context_texts]
                                     ELSE [based_on |-> context_texts[1]],
                          context_sources |-> context_sources]]

\* answer_question(product_id, request): the whole handler.  a_calls lists
\* the service calls it made, each with its arguments.
AnswerQuestion(product_id, question, use_external_llm, llm) ==
    /\ m_op # "none"
    /\ bpc = "idle"
    /\ LET valid    == validate_product_id(catalog, product_id)
           validate == <<"validate_product_id", product_id>>
           found    == retrieve(index, chunks, question, product_id, 3)
           search   == <<"retrieve", question, product_id, 3>>
           generate == <<"generate_answer", question>>
       IN  IF valid = Raised
           THEN /\ a_status' = 500
                /\ a_answer' = None
                /\ a_calls' = <<validate>>
           ELSE IF ~valid.value
           THEN /\ a_status' = 404
                /\ a_answer' = None
                /\ a_calls' = <<validate>>
           ELSE IF found.value = <<>>
           THEN /\ a_status' = 200
                /\ a_answer' = [answer |-> NoInformation, context_sources |-> {}]
                /\ a_calls' = <<validate, search>>
           ELSE LET response == AnswerFrom(found.value, use_external_llm, llm)
                IN  /\ a_status' = response.status
                    /\ a_answer' = response.answer
                    /\ a_calls' = IF use_external_llm
                                  THEN <<validate, search, generate>>
                                  ELSE <<validate, search>>
    /\ UNCHANGED <<cfgVars, ragVars, matchVars, chunkVars, callerVars,
                   builder2Vars>>

\* the product ids of the documents: one that is in no catalog, one that is
AnswerDocIds == {"x", "iphone-15-pro-max"}

\* the documents directories the application may start with
AnswerDirs ==
    {<<>>}
    \cup {<<[product_id |-> p, nwords |-> n]>> : p \in AnswerDocIds, n \in DocWords}
    \cup {d \in {<<[product_id |-> p, nwords |-> n],
                     [product_id |-> q, nwords |-> m]>> :
                      p \in AnswerDocIds, q \in AnswerDocIds,
                      n \in DocWords, m \in DocWords} :
              d[1].product_id # d[2].product_id}

\* before startup_event: the files are there, no service is constructed
InitAnswer ==
    /\ chunk_size = DefaultChunkSize
    /\ chunk_overlap = DefaultChunkOverlap
    /\ min_confidence = DefaultMinConfidence
    /\ catalogFile \in CatalogFiles
    /\ catalog = None
    /\ m_op = "none"
    /\ m_text = <<>>
    /\ m_top_k = 0
    /\ m_ret = None
    /\ docsExists = TRUE
    /\ docs \in {d \in AnswerDirs : Len(d) <= MaxDocs}
    /\ diskIndex = None
    /\ diskChunks = None
    /\ index = None
    /\ chunks = <<>>
    /\ bpc = "new"
    /\ b_todo = <<>>
    /\ b_emb = <<>>
    /\ b_count = 0
    /\ b_old = None
    /\ rpc = "idle"
    /\ r_query = None
    /\ r_product_id = NoProduct
    /\ r_top_k = 0
    /\ r_indices = <<>>
    /\ r_results = <<>>
    /\ ret = None
    /\ r_count = 0
    /\ r_seen = "complete"
    /\ r_uninit = FALSE
    /\ ChunkIdle
    /\ CallerIdle
    /\ AnswerIdle
    /\ Builder2Idle

\* startup_event: MatcherService(), then RAGService()
StartRag == m_op # "none" /\ Construct

NextAnswer ==
    \/ MatcherInit
    \/ StartRag
    \/ BuildDoc
    \/ BuildEmbed
    \/ BuildNewIndex
    \/ BuildAdd
    \/ SaveIndexFile
    \/ SaveChunksFile
    \/ \E product_id \in ProductIds, question \in Queries,
          use_external_llm \in BOOLEAN, llm \in LlmOutcomes :
            AnswerQuestion(product_id, question, use_external_llm, llm)

SpecAnswer == InitAnswer /\ [][NextAnswer]_vars

(***************************************************************************)
(* POST /recognize-and-answer (app/routers/combined.py)                    *)
(*                                                                         *)
(* The handler runs to its end on the event loop, so a request is one      *)
(* step.  The texts of the answers are records, so that a fixed message    *)
(* and a generated answer can be told apart.                               *)
(***************************************************************************)
RECURSIVE CollapseSpaces(_)
\* re.sub(r'\s+', ' ', text): a run of spaces becomes one space
CollapseSpaces(text) ==
    IF Len(text) < 2 THEN text
    ELSE IF text[1] = " " /\ text[2] = " " THEN CollapseSpaces(Tail(text))
    ELSE <<Head(text)>> \o CollapseSpaces(Tail(text))

\* OCRService._clean_text; every character of CodePoints is one the second
\* substitution keeps (a word character, a space or '-')
_clean_text(text) == StrStrip(CollapseSpaces(text))

\* a fixed answer text
Message(text) == [message |-> text]

\* lines 103-106
NoInformationAnswer ==
    [answer |-> Message(NoInformation), context_sources |-> {}]

\* lines 114-118
NotRecognizedAnswer ==
    [answer |-> Message("Cannot answer question: product not recognized from image."),
     context_sources |-> {}]

\* the exception passed on: the outer handler answers 500
AnswerFailed_reraise == [status |-> 500, answer |-> None]

\* lines 108-113: retrieve or generate_answer raised; the request goes on
\* with an answer that says so
AnswerFailed ==
    [status |-> 200,
     answer |-> [answer |-> Message("Failed to generate answer"),
                 context_sources |-> {}]]

\* lines 83-113: the answer for a question about the recognized product,
\* as [status, answer]
CombinedAnswer(question, best_product_id, llm) ==
    LET found == retrieve(index, chunks, question, best_product_id, 3)
    IN  IF found = Raised THEN AnswerFailed
        ELSE IF found.value = <<>>
        THEN [status |-> 200, answer |-> NoInformationAnswer]
        ELSE IF llm = "raise" THEN AnswerFailed
        ELSE [status |-> 200,
              answer |-> [answer |-> [llm |-> [i \in 1..Len(found.value) |->
                                                found.value[i].text]],
                          context_sources |->
                              {found.value[i].source : i \in 1..Len(found.value)}]]

\* the service calls of lines 85 and 96, with the outcome of the second
CombinedAnswerCalls(question, best_product_id, llm) ==
    LET found == retrieve(index, chunks, question, best_product_id, 3)
    IN  <<<<"retrieve", question, best_product_id, 3>>>>
        \o (IF found # Raised /\ found.value # <<>>
            THEN <<<<"generate_answer", question, llm>>>>
            ELSE <<>>)

\* the form field question when the request has none
NoQuestion == None

\* lines 69-123 once OCR returned the text ocr_text and find_matches the
\* list found (or raised): [status, body, calls]
CombinedFrom(ocr_text, found, question, llm) ==
    LET extract == <<"extract_text">>
        match   == <<"find_matches", ocr_text>>
    IN  IF found = Raised
        THEN [status |-> 500, body |-> None, calls |-> <<extract, match>>]
        ELSE
        LET candidates      == found.value
            best_product_id == IF candidates # <<>>
                               THEN candidates[1].product_id ELSE NoProduct
            recognition     == [candidates |-> candidates,
                                best_product_id |-> best_product_id]
        IN  IF question # NoQuestion /\ best_product_id # NoProduct
            THEN LET answered == CombinedAnswer(question, best_product_id, llm)
                 IN  [status |-> answered.status,
                      body   |-> IF answered.status = 200
                                 THEN [recognition |-> recognition,
                                       answer |-> answered.answer]
                                 ELSE None,
                      calls  |-> <<extract, match>>
                                 \o CombinedAnswerCalls(question, best_product_id, llm)]
            ELSE [status |-> 200,
                  body   |-> [recognition |-> recognition,
                              answer |-> IF question # NoQuestion
                                         THEN NotRecognizedAnswer ELSE None],
                  calls  |-> <<extract, match>>]

\* the form field question: absent, or one of the queries
Questions == {NoQuestion} \cup Queries

\* lines 69-123 for every question the form may carry and every outcome of
\* the LLM call, found being what find_matches returned for ocr_text
Respond(ocr_text, found) ==
    \E question \in Questions, llm \in LlmOutcomes :
       LET response == CombinedFrom(ocr_text, found, question, llm)
       IN  /\ a_status' = response.status
           /\ a_answer' = response.body
           /\ a_calls' = response.calls

\* recognize_and_answer(image, question): the whole handler.  text is what
\* tesseract reads off the image.
RecognizeAndAnswer(is_image, text) ==
    /\ m_op # "none"
    /\ bpc = "idle"
    /\ LET ocr_text == _clean_text(text)
       IN  IF ~is_image
           THEN /\ a_status' = 400
                /\ a_answer' = None
                /\ a_calls' = <<>>
           ELSE IF ocr_text = <<>>
           THEN /\ a_status' = 200
                /\ a_answer' = [recognition |-> [candidates |-> <<>>,
                                                 best_product_id |-> NoProduct],
                                answer |-> None]
                /\ a_calls' = <<<<"extract_text">>>>
           ELSE Respond(ocr_text,
                        find_matches(catalog, ocr_text, top_k_matches,
                                     min_confidence))
    /\ UNCHANGED <<cfgVars, ragVars, matchVars, chunkVars, callerVars,
                   builder2Vars>>

\* what tesseract reads: nothing, blanks, a full label, a title alone
ImageTexts == {<<>>, Q_blank, Q_label, T_macbook_pro}

\* the catalogs the application may start with
CombinedCatalogs ==
    {None,
     [columns |-> CatalogColumns, rows |-> <<E_iphone_15_pro_max>>],
     [columns |-> CatalogColumns, rows |-> <<E_iphone_15_pro, E_iphone_15_pro_max>>]}

InitCombined ==
    /\ chunk_size = DefaultChunkSize
    /\ chunk_overlap = DefaultChunkOverlap
    /\ min_confidence = DefaultMinConfidence
    /\ catalogFile \in CombinedCatalogs
    /\ catalog = None
    /\ m_op = "none"
    /\ m_text = <<>>
    /\ m_top_k = 0
    /\ m_ret = None
    /\ docsExists = TRUE
    /\ docs \in {d \in AnswerDirs : Len(d) <= MaxDocs}
    /\ diskIndex = None
    /\ diskChunks = None
    /\ index = None
    /\ chunks = <<>>
    /\ bpc = "new"
    /\ b_todo = <<>>
    /\ b_emb = <<>>
    /\ b_count = 0
    /\ b_old = None
    /\ rpc = "idle"
    /\ r_query = None
    /\ r_product_id = NoProduct
    /\ r_top_k = 0
    /\ r_indices = <<>>
    /\ r_results = <<>>
    /\ ret = None
    /\ r_count = 0
    /\ r_seen = "complete"
    /\ r_uninit = FALSE
    /\ ChunkIdle
    /\ CallerIdle
    /\ AnswerIdle
    /\ Builder2Idle

NextCombined ==
    \/ MatcherInit
    \/ StartRag
    \/ BuildDoc
    \/ BuildEmbed
    \/ BuildNewIndex
    \/ BuildAdd
    \/ SaveIndexFile
    \/ SaveChunksFile
    \/ \E is_image \in BOOLEAN, text \in ImageTexts :
            RecognizeAndAnswer(is_image, text)

SpecCombined == InitCombined /\ [][NextCombined]_vars

(***************************************************************************)
(* Two threads that call build_index on one service                        *)
(*                                                                         *)
(* build_index takes no lock.  The first thread is the one of Spec; the    *)
(* second calls build_index once on the constructed service.  self.index   *)
(* and self.chunks are looked up at every statement, so each thread works  *)
(* on the objects the attributes hold at that moment; the list of          *)
(* documents still to read and the embeddings are locals of the call.      *)
(***************************************************************************)
\* lines 51-56 in the second thread
Build2Index ==
    /\ b2pc = "idle"
    /\ Constructed
    /\ chunks' = <<>>
    /\ b2_emb' = <<>>
    /\ IF docsExists
       THEN b2pc' = "build_docs" /\ b2_todo' = docs
       ELSE b2pc' = "done" /\ b2_todo' = <<>>
    /\ UNCHANGED <<docsExists, docs, diskIndex, diskChunks, index,
                   bpc, b_todo, b_emb, b_count, b_old>>
    /\ UNCHANGED <<readerVars, cfgVars, matchVars, chunkVars, callerVars,
                   answerVars>>

\* lines 58-67 in the second thread
Build2Doc ==
    /\ b2pc = "build_docs"
    /\ b2_todo # <<>>
    /\ chunks' = chunks \o _chunk_document(Head(b2_todo).nwords,
                              Head(b2_todo).product_id, chunk_size, chunk_overlap)
    /\ b2_todo' = Tail(b2_todo)
    /\ UNCHANGED <<b2pc, b2_emb>>
    /\ UNCHANGED <<docsExists, docs, diskIndex, diskChunks, index,
                   bpc, b_todo, b_emb, b_count, b_old>>
    /\ UNCHANGED <<readerVars, cfgVars, matchVars, chunkVars, callerVars,
                   answerVars>>

\* lines 71-78 in the second thread
Build2Embed ==
    /\ b2pc = "build_docs"
    /\ b2_todo = <<>>
    /\ IF chunks = <<>>
       THEN b2pc' = "done" /\ b2_emb' = <<>>
       ELSE b2pc' = "build_index" /\ b2_emb' = EncodeAll(chunks)
    /\ UNCHANGED b2_todo
    /\ UNCHANGED <<docsExists, docs, diskIndex, diskChunks, index, chunks,
                   bpc, b_todo, b_emb, b_count, b_old>>
    /\ UNCHANGED <<readerVars, cfgVars, matchVars, chunkVars, callerVars,
                   answerVars>>

\* line 82 in the second thread
Build2NewIndex ==
    /\ b2pc = "build_index"
    /\ index' = [vecs |-> <<>>]
    /\ b2pc' = "build_add"
    /\ UNCHANGED <<b2_todo, b2_emb>>
    /\ UNCHANGED <<docsExists, docs, diskIndex, diskChunks, chunks,
                   bpc, b_todo, b_emb, b_count, b_old>>
    /\ UNCHANGED <<readerVars, cfgVars, matchVars, chunkVars, callerVars,
                   answerVars>>

\* line 83 in the second thread: the vectors go to the index self.index
\* holds now
Build2Add ==
    /\ b2pc = "build_add"
    /\ index' = [vecs |-> index.vecs \o b2_emb]
    /\ b2_emb' = <<>>
    /\ b2pc' = "save_index"
    /\ UNCHANGED b2_todo
    /\ UNCHANGED <<docsExists, docs, diskIndex, diskChunks, chunks,
                   bpc, b_todo, b_emb, b_count, b_old>>
    /\ UNCHANGED <<readerVars, cfgVars, matchVars, chunkVars, callerVars,
                   answerVars>>

\* _save_index, lines 125-130, in the second thread
Save2IndexFile ==
    /\ b2pc = "save_index"
    /\ \/ diskIndex' = index /\ b2pc' = "save_chunks"
       \/ diskIndex' \in {diskIndex, Corrupt} /\ b2pc' = "done"
    /\ UNCHANGED <<b2_todo, b2_emb>>
    /\ UNCHANGED <<docsExists, docs, diskChunks, index, chunks,
                   bpc, b_todo, b_emb, b_count, b_old>>
    /\ UNCHANGED <<readerVars, cfgVars, matchVars, chunkVars, callerVars,
                   answerVars>>

\* _save_index, lines 132-133, in the second thread
Save2ChunksFile ==
    /\ b2pc = "save_chunks"
    /\ diskChunks' \in {[pickled |-> chunks], diskChunks, Corrupt}
    /\ b2pc' = "done"
    /\ UNCHANGED <<b2_todo, b2_emb>>
    /\ UNCHANGED <<docsExists, docs, diskIndex, index, chunks,
                   bpc, b_todo, b_emb, b_count, b_old>>
    /\ UNCHANGED <<readerVars, cfgVars, matchVars, chunkVars, callerVars,
                   answerVars>>

NextRebuild ==
    \/ Construct
    \/ BuildIndex
    \/ BuildDoc
    \/ BuildEmbed
    \/ BuildNewIndex
    \/ BuildAdd
    \/ SaveIndexFile
    \/ SaveChunksFile
    \/ Build2Index
    \/ Build2Doc
    \/ Build2Embed
    \/ Build2NewIndex
    \/ Build2Add
    \/ Save2IndexFile
    \/ Save2ChunksFile

SpecRebuild == Init /\ [][NextRebuild]_vars

(***************************************************************************)
(* Properties                                                              *)
(***************************************************************************)
\* the result of the last retrieve, [] when it has none
Returned == IF rpc = "done" /\ ret # Raised THEN ret.value ELSE <<>>

\* C1: while build_index runs, a concurrent retrieve reads either the
\* complete (index, chunks) pair the build started from or the complete pair
\* it ends with, never a pair in between.
C1_AtomicSwap == rpc # "idle" => r_seen = "complete"

\* the positions of the stored chunks of product p
ChunksOf(p) == {i \in 1..Len(chunks) : chunks[i].product_id = p}

\* C2: on a quiescent service whose index holds exactly one chunk of product
\* "x", retrieve(query, "x", 3) returns exactly that chunk, once.
C2_SingleMatch ==
    (/\ rpc = "done"
     /\ bpc = "idle"
     /\ b_count = 0
     /\ r_product_id = "x"
     /\ r_top_k = 3
     /\ index # None
     /\ ntotal(index) = Len(chunks)
     /\ Cardinality(ChunksOf("x")) = 1)
    => \A i \in ChunksOf("x") : ret = [value |-> <<chunks[i]>>]

\* C3: every chunk returned by a retrieve that was given a product_id has
\* that product_id, in every state, also when a rebuild ran meanwhile.
C3_FilterRespected ==
    (rpc = "done" /\ r_product_id # NoProduct)
    => \A i \in 1..Len(Returned) : Returned[i].product_id = r_product_id

\* a filtered retrieve that read a torn state during a rebuild returned
\* chunks while chunks of another product are stored
C3_Witness ==
    /\ rpc = "done"
    /\ r_product_id = "x"
    /\ r_seen = "torn"
    /\ Returned # <<>>
    /\ ChunksOf("y") # {}

\* C4: retrieve never raises, and it returns [] when it finds the index
\* None or the chunk list empty, whatever construction, load and builds
\* came before.
C4_NeverRaises ==
    rpc = "done" => /\ ret # Raised
                    /\ r_uninit => ret = [value |-> <<>>]

\* retrieve returned [] on a service left with a loaded or built index and
\* no chunks (a build that found no directory or produced no chunks)
C4_Witness ==
    /\ rpc = "done"
    /\ r_uninit
    /\ bpc = "idle"
    /\ index # None
    /\ chunks = <<>>
    /\ ret = [value |-> <<>>]

\* C5: on a matcher whose catalog failed to load, validate_product_id
\* returns false for every product id.
C5_ValidateFalse ==
    (m_op = "validate_product_id" /\ catalogFile \in {None, Corrupt})
    => m_ret = [value |-> FALSE]

\* the catalog rows whose title is exactly the text of the last call
TitleRows == {i \in 1..Len(catalog.rows) : catalog.rows[i].title = m_text}

\* C6: with the shipped weights and floor, find_matches on the exact title
\* of a catalog entry returns that entry as its first candidate.
C6_ExactTitleFirst ==
    (/\ m_op = "find_matches"
     /\ min_confidence = DefaultMinConfidence
     /\ m_text # <<>>)
    => \A i \in TitleRows :
          /\ m_ret # Raised
          /\ m_ret.value # <<>>
          /\ m_ret.value[1].product_id = catalog.rows[i].product_id

\* C7: with the iPhone 15 Pro Max entry in the catalog, the text
\* "iphone 15 pro max" yields it as first candidate with score >= 0.9.
C7_Scenario1 ==
    (/\ m_op = "find_matches"
     /\ min_confidence = DefaultMinConfidence
     /\ m_text = Q_iphone_15_pro_max
     /\ \E i \in 1..Len(catalog.rows) : catalog.rows[i] = E_iphone_15_pro_max)
    => /\ m_ret # Raised
       /\ m_ret.value # <<>>
       /\ m_ret.value[1].product_id = "iphone-15-pro-max"
       /\ m_ret.value[1].score >= 900

\* the candidates of the last find_matches
Matches == IF m_op = "find_matches" /\ m_ret # Raised THEN m_ret.value ELSE <<>>

\* C8: with the shipped floor, every returned candidate has
\* 0.6 <= score <= 1.0 (scores are thousandths), and the candidates are
\* sorted by score, non-increasing.
C8_ScoreRange ==
    (m_op = "find_matches" /\ min_confidence = DefaultMinConfidence)
    => /\ \A i \in 1..Len(Matches) :
             Matches[i].score >= 600 /\ Matches[i].score <= 1000
       /\ \A i \in 1..(Len(Matches) - 1) :
             Matches[i].score >= Matches[i + 1].score

\* two candidates with different scores, returned in the reverse of their
\* catalog order
C8_Witness ==
    /\ m_op = "find_matches"
    /\ min_confidence = DefaultMinConfidence
    /\ Len(Matches) = 2
    /\ Matches[1].score > Matches[2].score
    /\ Matches[1].product_id = catalog.rows[2].product_id
    /\ Matches[2].product_id = catalog.rows[1].product_id

\* C9: find_matches returns [] and does not raise when the text is empty
\* or the catalog is empty, for every top_k.
C9_EmptyInputs ==
    (m_op = "find_matches" /\ (m_text = <<>> \/ DataFrameEmpty(catalog)))
    => m_ret = [value |-> <<>>]

\* the empty text on a catalog with rows and a floor of 0, where every row
\* would pass the floor
C9_Witness ==
    /\ m_op = "find_matches"
    /\ m_text = <<>>
    /\ ~DataFrameEmpty(catalog)
    /\ min_confidence = 0
    /\ m_ret = [value |-> <<>>]

\* the number of word positions two chunks of a document have in common
Shared(c1, c2) ==
    Max(0, Min(c1.text.first + c1.text.count, c2.text.first + c2.text.count)
           - Max(c1.text.first, c2.text.first))

\* C10: consecutive chunks of a document share exactly chunk_overlap word
\* positions, except possibly the pair that contains the final chunk.
C10_OverlapExact ==
    c_out # None
    => \A k \in 1..(Len(c_out.value) - 2) :
          Shared(c_out.value[k], c_out.value[k + 1]) = chunk_overlap

\* the number of windows the loop of the chunker visits: the k >= 0 with
\* k * (chunk_size - chunk_overlap) < c_nwords
NumWindows ==
    (c_nwords + (chunk_size - chunk_overlap) - 1) \div (chunk_size - chunk_overlap)

\* window k (from 1) of the document as a chunk of product "x":
\* words[(k-1)*(s-o) : (k-1)*(s-o) + s], cut at the end of the document
Window(k) ==
    LET start == (k - 1) * (chunk_size - chunk_overlap)
    IN  [text       |-> [doc |-> "x", first |-> start,
                         count |-> Min(chunk_size, c_nwords - start)],
         product_id |-> "x",
         source     |-> [stem |-> "x", suffix |-> ".txt"]]

\* the windows from k on that have at least floor words, in order
RECURSIVE WindowsFrom(_, _)
WindowsFrom(k, floor) ==
    IF k > NumWindows THEN <<>>
    ELSE (IF Window(k).text.count >= floor THEN <<Window(k)>> ELSE <<>>)
         \o WindowsFrom(k + 1, floor)

\* C11 as stated: the chunks of a document are exactly its windows
\* words[k*(s-o) : k*(s-o)+s], k = 0, 1, ... while k*(s-o) < n, in order,
\* each tagged with the product_id and the source.
C11_AllWindows ==
    c_out # None => c_out.value = WindowsFrom(1, 0)

\* C11 amended: the chunks of a document are exactly those of its windows
\* that have at least 20 words, in order, each tagged with the product_id
\* and the source; a 400-word document chunked 300/75 gives exactly the
\* two chunks of words 0-299 and 225-399.
C11_WindowsAboveFloor ==
    c_out # None
    => /\ c_out.value = WindowsFrom(1, 20)
       /\ (c_nwords = 400 /\ chunk_size = 300 /\ chunk_overlap = 75)
          => /\ Len(c_out.value) = 2
             /\ c_out.value[1].text = [doc |-> "x", first |-> 0, count |-> 300]
             /\ c_out.value[2].text = [doc |-> "x", first |-> 225, count |-> 175]

\* a document chunked into overlapping chunks, a short last window dropped
C11_Witness ==
    /\ c_out # None
    /\ Len(c_out.value) >= 2
    /\ Len(c_out.value) < NumWindows
    /\ chunk_overlap > 0

\* whether window k of the document is missing from the chunker's output
Discarded(k) ==
    \A j \in 1..Len(c_out.value) : c_out.value[j].text.first # Window(k).text.first

\* C20: every chunk has at least 20 words, and the only window discarded
\* for being below the floor is the final window of the document.
C20_FloorOnlyFinal ==
    c_out # None
    => /\ \A j \in 1..Len(c_out.value) : c_out.value[j].text.count >= 20
       /\ \A k \in 1..NumWindows : Discarded(k) => k = NumWindows

\* C12: when a build has produced no chunks (no documents directory, no
\* documents, or only documents too short), the index is uninitialised
\* after build_index returned, whatever index the service held before, and
\* a retrieve that found the service so returned [].
C12_ZeroChunksUninit ==
    (bpc = "idle" /\ chunks = <<>>)
    => /\ index = None
       /\ (rpc = "done" /\ r_uninit) => ret = [value |-> <<>>]

\* C18: in every quiescent state, an initialised index holds as many
\* vectors as there are chunks.
C18_Aligned ==
    (bpc = "idle" /\ index # None) => ntotal(index) = Len(chunks)

\* C19: whenever both artifacts are on disk and readable, index.faiss and
\* chunks.pkl hold the same number of entries, also while a save is under
\* way and after a save that failed.
C19_SavedTogether ==
    (diskIndex \notin {None, Corrupt} /\ diskChunks \notin {None, Corrupt})
    => ntotal(diskIndex) = Len(diskChunks.pickled)

\* the step with which a construction that ran build_index returns: the
\* artifacts were missing or their load failed
ConstructionBuilt ==
    /\ bpc # "idle"
    /\ bpc' = "idle"
    /\ b_old = None
    /\ bpc = "new" => ~(/\ _index_exists
                        /\ diskIndex # Corrupt
                        /\ diskChunks # Corrupt)

\* C14: when the construction falls back to build_index, the (index,
\* chunks) it ends with is that of a fresh full build from the documents:
\* nothing of the partly loaded artifacts is kept.
C14_FallbackFresh ==
    [][ConstructionBuilt
         => [index |-> index', chunks |-> chunks'] = BuildFinal(None)]_vars

\* the stored vector ids nearer to qv than id i (the lower id first when two
\* are as near)
Nearer(i, qv) ==
    {j \in 0..(ntotal(index) - 1) :
        \/ L2(index.vecs[j + 1], qv) < L2(index.vecs[i + 1], qv)
        \/ L2(index.vecs[j + 1], qv) = L2(index.vecs[i + 1], qv) /\ j < i}

\* the reference result of retrieve(query, product_id, top_k): the N
\* nearest stored chunks by increasing distance, N = 5 * top_k with a
\* product_id and top_k without, or all of them when fewer are stored;
\* those of the product; the first top_k of these
Reference(query, product_id, top_k) ==
    LET qv       == EncodeQuery(query)
        N        == Min(IF product_id # NoProduct THEN 5 * top_k ELSE top_k,
                        ntotal(index))
        nearest  == [r \in 1..N |->
                       chunks[1 + CHOOSE i \in 0..(ntotal(index) - 1) :
                                     Cardinality(Nearer(i, qv)) = r - 1]]
        Keep(c)  == product_id = NoProduct \/ c.product_id = product_id
        kept     == SelectSeq(nearest, Keep)
    IN  SubSeq(kept, 1, Min(top_k, Len(kept)))

\* C15: on a service that is not being rebuilt, retrieve returns exactly
\* the reference result.
C15_Reference ==
    [][(rpc = "walk" /\ rpc' = "done" /\ bpc = "idle" /\ b_count = 0)
         => ret' = [value |-> Reference(r_query, r_product_id, r_top_k)]]_vars

\* the documents of a directory listing
DocSet(ds) == {ds[i] : i \in 1..Len(ds)}

\* C13: when build_index has run on a document set and then on a strict
\* superset of it, the service holds strictly more chunks and strictly
\* more vectors after the second build than after the first.
C13_StrictlyMore ==
    (/\ bpc = "idle"
     /\ h_built # None
     /\ b_count = h_built.b_count + 1
     /\ docsExists
     /\ DocSet(h_built.docs) \subseteq DocSet(docs)
     /\ DocSet(h_built.docs) # DocSet(docs))
    => /\ Len(chunks) > h_built.nchunks
       /\ index # None
       /\ ntotal(index) > h_built.nvecs

\* the combined score of catalog row i for the text of the last call, before
\* rounding
Combined(i) ==
    LET text_normalized == StrStrip(StrLower(m_text))
    IN  combined_score(
            token_set_ratio(text_normalized, StrLower(catalog.rows[i].title)),
            token_set_ratio(text_normalized, StrLower(catalog.rows[i].model)),
            token_set_ratio(text_normalized, StrLower(catalog.rows[i].brand)))

\* the catalog rows whose combined score is at least the floor
Eligible == {i \in 1..Len(catalog.rows) : AboveFloor(Combined(i), min_confidence)}

RECURSIVE Smaller(_, _)
\* f < g for fractions of any size, by their continued fractions (no
\* product is formed)
Smaller(f, g) ==
    LET qf == f[1] \div f[2]
        qg == g[1] \div g[2]
        rf == f[1] % f[2]
        rg == g[1] % g[2]
    IN  IF qf # qg THEN qf < qg
        ELSE IF rg = 0 THEN FALSE
        ELSE IF rf = 0 THEN TRUE
        ELSE Smaller(<<g[2], rg>>, <<f[2], rf>>)

\* the eligible rows that come before row i when sorted by combined score
\* descending, equal scores in catalog order
Before(i) ==
    {j \in Eligible : \/ Smaller(Combined(i), Combined(j))
                      \/ (~Smaller(Combined(j), Combined(i)) /\ j < i)}

\* C16: find_matches returns exactly the first top_k of the catalog rows
\* whose combined score is at least the floor, sorted by the combined score
\* before rounding, descending, rows of equal combined score in catalog
\* order.
C16_SortedByCombined ==
    (m_op = "find_matches" /\ ~FindMatchesGuard(m_text, catalog))
    => /\ m_ret # Raised
       /\ Len(m_ret.value) = Min(m_top_k, Cardinality(Eligible))
       /\ \A i \in Eligible :
             Cardinality(Before(i)) < Len(m_ret.value)
             => m_ret.value[Cardinality(Before(i)) + 1].product_id
                  = catalog.rows[i].product_id

\* the product id of the last request to /products/{product_id}/answer
Requested == a_calls[1][2]

\* the service calls the last request made, by name
Called == {a_calls[i][1] : i \in 1..Len(a_calls)}

\* C17: a request to /products/{product_id}/answer whose product_id is not
\* in the catalog is answered 404, and neither retrieve nor generate_answer
\* is called for it.
C17_Unknown404 ==
    (/\ a_status # 0
     /\ \A i \in 1..Len(catalog.rows) : catalog.rows[i].product_id # Requested)
    => /\ a_status = 404
       /\ Called \cap {"retrieve", "generate_answer"} = {}

\* C23: the sequence retrieve returns never holds the same stored chunk
\* twice, also when more neighbours are asked for than vectors are stored
\* and the search fills its id list with -1.  The stored chunks are
\* pairwise different, so a chunk returned twice is a position returned
\* twice; the service is quiescent and was built once.
C23_NoDuplicates ==
    (rpc = "done" /\ bpc = "idle" /\ b_count = 0)
    => \A i, j \in 1..Len(Returned) : i # j => Returned[i] # Returned[j]

\* both threads are outside build_index and the second has made its call
BuildsReturned == bpc = "idle" /\ b2pc = "done"

\* C21: build_index is mutually exclusive with itself, so when the calls of
\* two threads have returned the service is in the state of one complete
\* build: the chunks of one pass over the documents, as many vectors as
\* chunks, and every artifact written holding that state.
C21_SingleBuild ==
    BuildsReturned
    => LET built == BuildFinal(None)
       IN  /\ chunks = built.chunks
           /\ index = built.index
           /\ diskIndex \in {None, Corrupt, built.index}
           /\ diskChunks \in {None, Corrupt, [pickled |-> built.chunks]}

\* (index, chunks) of a RAGService constructed over the artifacts idx and
\* cks and the documents as they are: the loaded pair, or the build that a
\* failed load falls back to
ConstructedFrom(idx, cks) ==
    IF idx # None /\ cks # None /\ idx # Corrupt /\ cks # Corrupt
    THEN [index |-> idx, chunks |-> cks.pickled]
    ELSE BuildFinal(IF idx # None /\ cks # None /\ idx # Corrupt
                    THEN idx ELSE None)

\* a call of build_index on the constructed service returns in this step,
\* every write it attempted having succeeded: the early returns of lines 56
\* and 73, or the write of chunks.pkl after that of index.faiss
BuildReturns ==
    \/ bpc = "idle" /\ bpc' = "idle" /\ b_count' = b_count + 1
    \/ bpc = "build_docs" /\ bpc' = "idle" /\ b_count > 0
    \/ /\ bpc = "save_chunks" /\ bpc' = "idle" /\ b_count > 0
       /\ diskChunks' = [pickled |-> chunks]

\* C24: when a build_index call returns and its saves succeeded, a service
\* constructed afterwards from the same directory answers every retrieve
\* as the service that ran the build does; a build that ends with no chunks
\* leaves no older snapshot to be loaded.
C24_SnapshotMatches ==
    [][BuildReturns
       => LET fresh == ConstructedFrom(diskIndex', diskChunks')
          IN  \A query \in Queries, product_id \in ProductArgs, top_k \in TopKs :
                 retrieve(fresh.index, fresh.chunks, query, product_id, top_k)
                   = retrieve(index', chunks', query, product_id, top_k)]_vars

\* the request handled was a POST /recognize-and-answer whose upload was
\* accepted and whose OCR text, OcrText, was not empty
Recognized ==
    /\ Len(a_calls) >= 2
    /\ a_calls[1] = <<"extract_text">>
    /\ a_calls[2][1] = "find_matches"

OcrText == a_calls[2][2]

\* the recognition result of that text: the candidates of find_matches and
\* the id of the first of them, if any
RecognitionOf(ocr_text) ==
    LET candidates == find_matches(catalog, ocr_text, top_k_matches,
                                   min_confidence).value
    IN  [candidates |-> candidates,
         best_product_id |-> IF candidates = <<>> THEN NoProduct
                             ELSE candidates[1].product_id]

\* the calls of the request to the retriever and to the answer generator
RetrieveCalls == {i \in 1..Len(a_calls) : a_calls[i][1] = "retrieve"}
GenerateCalls == {i \in 1..Len(a_calls) : a_calls[i][1] = "generate_answer"}

====
